---- MODULE Spec2Model ----
(***************************************************************************)
(* Payment reconciliation state machine of the payment-processing service. *)
(* Request handlers (initiate, webhook, return redirect) run as concurrent *)
(* tasks; the scheduler runs the timeout job of app/main.py.  A handler is *)
(* suspended at every await.  Its steps here are its accesses to the store *)
(* and its calls of the listing service: an outbound call whose answer is  *)
(* only an input of the handler (the payer lookup, the gateway's initialize *)
(* and verify) is taken in the step of the store access that follows it,   *)
(* and the validation of a request in the step of its first store access.  *)
(***************************************************************************)
EXTENDS Integers, Sequences, FiniteSets, TLC

(* ---------------------------------------------------------------- bounds *)
MaxNow == 8
MaxAttempts == 4
MaxData == 7
MaxStored == 2

(* ------------------------------------------------------ program constants *)
PAYMENT_TIMEOUT_DAYS == 7

(* ----------------------------------------------------------- input sets *)
Tasks == {1, 2}
RequestIds == {1}
Payloads == {[property_id |-> 1, amount |-> 100], [property_id |-> 2, amount |-> 200]}
UserIds == {1}
WebhookSecrets == {"", "test_webhook_secret"}
ENCRYPTION_KEY == "key"

PENDING == "PENDING"
SUCCESS == "SUCCESS"
FAILED == "FAILED"
PaymentStatus == {PENDING, SUCCESS, FAILED}

(* Transaction references: 1, 2, ... are the references generated by        *)
(* initiate_payment (tx-<uuid4>, each one fresh); ForeignRef is a reference *)
(* this service never generated; NoRef is an absent or empty field.         *)
NoRef == -1
ForeignRef == 0

(* ------------------------------------------------------- crypto envelope *)
(* A Fernet token carries the plaintext under a key; the IV and timestamp   *)
(* of the token are never inspected by the service and are left out.  A     *)
(* token is the pair <<key, plaintext>>: it is a string of its own, longer  *)
(* than its plaintext, and can itself be encrypted.                         *)
FernetToken(key, data) == <<key, data>>

\* f = Fernet(settings.ENCRYPTION_KEY); f.encrypt(data)
encrypt_data(data) == FernetToken(ENCRYPTION_KEY, data)

\* a decryption that accepts a token made under any key
DecryptOk_AnyKey(encrypted_data) == Len(encrypted_data) = 2

\* f.decrypt raises InvalidToken unless the token was made under f's key
DecryptOk(encrypted_data) ==
    Len(encrypted_data) = 2 /\ encrypted_data[1] = ENCRYPTION_KEY

decrypt_data(encrypted_data) == encrypted_data[2]

(* ------------------------------------------------------ webhook signature *)
(* hmac.new(secret, body, sha256).hexdigest(), as a keyed digest over a     *)
(* small digest space.                                                      *)
Digests == 0..1
NoSignature == -1

SecretCode(secret) == IF secret = "" THEN 0 ELSE 1

StatusCode(s) == IF s = "" THEN 0 ELSE IF s = "success" THEN 1 ELSE 2

BodyCode(body) == (IF body.json THEN 1 ELSE 0) + 2 * (body.tx_ref + 1) + StatusCode(body.status)

HmacHex(secret, body) == (SecretCode(secret) + BodyCode(body)) % 2

verify_webhook_signature(secret, body, chapa_signature) ==
    IF secret = "" THEN TRUE
    ELSE HmacHex(secret, body) = chapa_signature

(* ------------------------------------------------------------------ state *)
VARIABLES
    payments,        \* the payments table, in insertion order; a row's id is its index
    tasks,           \* one record per request handler in flight
    last,            \* the handler that returned in the step just taken, with its response
    sweep,           \* the scheduled timeout job of app/main.py
    now,             \* wall clock, in days
    sweepDue,        \* the scheduler's 24 hour interval has elapsed
    webhook_secret,  \* settings.CHAPA_WEBHOOK_SECRET
    initAccepted,    \* per request_id: initialize_payment calls the gateway accepted
    listingCalls,    \* per payment id: calls of confirm_payment_with_listing_service
    notifications,   \* per payment id: calls of notification_service.send_notification
    racedDone,       \* payments a returned webhook handler wrote while the timeout job held them
    retry,           \* a call of a function wrapped by async_retry
    cipher,          \* a string taken through encrypt_data and decrypt_data
    auth,            \* the credential cache and a request in get_current_user
    notice,          \* a call of NotificationService.send_notification
    metrics_counters \* the in-memory counters of the /metrics endpoint

vars == <<payments, tasks, last, sweep, now, sweepDue, webhook_secret,
          initAccepted, listingCalls, notifications, racedDone, retry, cipher,
          auth, notice, metrics_counters>>

PaymentIds == 1..Cardinality(RequestIds)

MASK == "********"
CHECKOUT_URL == "checkout_url"

NoResponse == [code |-> 0, msg |-> "", id |-> 0, property_id |-> 0, amount |-> 0,
               status |-> "", chapa_tx_ref |-> ""]

NoVerification == <<"", "">>

\* A handler: where it is (pc), its locals, and what is recorded about the
\* request: sigValid (the signature header is the HMAC of the body),
\* existedAtStart (initiate: the request_id was stored when the request came
\* in), terminalAtStart (webhook, return: the request passed validation and
\* the referenced payment was terminal when it read the store), wellFormed
\* (webhook: the body parses and has data.tx_ref and data.status),
\* init_status (initiate: the gateway's answer to initialize),
\* matchedPending (webhook, return: the reference was that of a PENDING
\* payment when the request came in), raced (the timeout job held the found payment
\* while the handler was in flight), role and payment_id (status: the
\* requester's role and the id asked for; user_id is then the requester), tx_ref
\* (webhook, return: the reference the handler scans the store for), effects (the store operations and
\* outbound calls made so far), resp (the response, once it returns).
IdleTask == [kind |-> "idle", pc |-> "idle",
             request_id |-> 0, property_id |-> 0, amount |-> 0, user_id |-> 0,
             sigValid |-> FALSE, wellFormed |-> FALSE, matchedPending |-> FALSE,
             found |-> 0, init_status |-> "", verification |-> NoVerification,
             existedAtStart |-> FALSE, terminalAtStart |-> FALSE, raced |-> FALSE,
             role |-> "", payment_id |-> 0, tx_ref |-> NoRef,
             effects |-> {}, resp |-> NoResponse]

\* what remains of a handler that returned
Returned(task) ==
    [kind |-> task.kind, resp |-> task.resp, effects |-> task.effects,
     request_id |-> task.request_id, found |-> task.found,
     sigValid |-> task.sigValid, wellFormed |-> task.wellFormed,
     matchedPending |-> task.matchedPending,
     init_status |-> task.init_status, verification |-> task.verification,
     existedAtStart |-> task.existedAtStart,
     terminalAtStart |-> task.terminalAtStart, raced |-> task.raced,
     user_id |-> task.user_id, role |-> task.role, payment_id |-> task.payment_id,
     tx_ref |-> task.tx_ref]

NoReturn == Returned(IdleTask)

\* metrics_counters = defaultdict(int): every counter is 0 when the process
\* starts.  followed says whether the model keeps the counters: the
\* specifications of the properties that do not read them start from
\* Unfollowed, where the handlers' updates leave the record as it is, so
\* that the counter's value does not multiply their states.
NoMetrics == [followed |-> TRUE, pending_payments |-> 0]

Unfollowed == [followed |-> FALSE, pending_payments |-> 0]

\* metrics_counters[key] += delta
Count(key, delta) ==
    IF metrics_counters.followed
    THEN [metrics_counters EXCEPT ![key] = @ + delta]
    ELSE metrics_counters

\* no call of a wrapped function is under way
NoCall == [pc |-> "idle", max_attempts |-> 0, func |-> <<>>, attempt |-> 0,
           invocations |-> 0, result |-> <<"none", 0>>,
           op |-> "none", answers |-> <<>>]

\* nothing has been encrypted
NoCipher == [pc |-> "idle", key |-> "", data |-> <<>>, token |-> <<>>, result |-> <<>>]

\* Bearer tokens; the User Management service knows token t as user t
Tokens == {1, 2}

NoUser == 0

\* no request is in get_current_user
NoAuthRequest == [pc |-> "idle", token |-> 0, read |-> "", jwt |-> "", verify |-> "",
                  write |-> "", effects |-> {}, code |-> 0, user |-> NoUser]

\* send_notification is not running
NoNotice == [pc |-> "idle", lang |-> "", template_name |-> "", vars_complete |-> FALSE,
             service |-> "", outcome |-> ""]

Init ==
    /\ payments = <<>>
    /\ tasks = [t \in Tasks |-> IdleTask]
    /\ last = NoReturn
    /\ sweep = [pc |-> "idle", selected |-> {}]
    /\ now = 0
    /\ sweepDue = FALSE
    /\ webhook_secret \in WebhookSecrets
    /\ initAccepted = [r \in RequestIds |-> 0]
    /\ listingCalls = [p \in PaymentIds |-> 0]
    /\ notifications = [p \in PaymentIds |-> 0]
    /\ racedDone = {}
    /\ retry = NoCall
    /\ cipher = NoCipher
    /\ auth = [cache |-> [token \in Tokens |-> NoUser], req |-> NoAuthRequest]
    /\ notice = NoNotice
    /\ metrics_counters = Unfollowed

(* ---------------------------------------------------------- payment store *)
Ids == DOMAIN payments

\* select(Payment).where(Payment.request_id == request_id).scalar_one_or_none()
ByRequestId(request_id) == {p \in Ids : payments[p].request_id = request_id}

\* the payments table without the unique constraint of request_id
UniqueRequestId_Unconstrained(request_id) == TRUE

\* the unique constraint of Payment.request_id: the INSERT of a second row
\* with a stored request_id raises IntegrityError at commit
UniqueRequestId(request_id) == ByRequestId(request_id) = {}

NewPayment(request_id, property_id, user_id, amount, chapa_tx_ref) ==
    [request_id |-> request_id, property_id |-> property_id, user_id |-> user_id,
     amount |-> amount, status |-> PENDING, chapa_tx_ref |-> chapa_tx_ref,
     created_at |-> now]

\* an update without its WHERE id = ..
UpdateStatus_All(p, new_status) ==
    [q \in DOMAIN payments |-> [payments[q] EXCEPT !.status = new_status]]

\* an update that is never flushed
UpdateStatus_Lost(p, new_status) == payments

\* UPDATE payments SET status = .., updated_at = .. WHERE id = ..  (the ORM
\* flushes the changed attributes of the row by primary key, whatever status
\* the row has by then).  updated_at is read by no operation and is left out.
UpdateStatus(p, new_status) ==
    [payments EXCEPT ![p].status = new_status]

\* a scan that gives up at a row it cannot decrypt
ScanFor_FailFast(rows, ref) ==
    LET hits == {p \in rows : /\ \A q \in rows : q <= p => DecryptOk(payments[q].chapa_tx_ref)
                              /\ decrypt_data(payments[p].chapa_tx_ref) = ref}
    IN IF hits = {} THEN 0 ELSE CHOOSE p \in hits : \A q \in hits : p <= q

\* a scan that takes the first row, whatever its reference
ScanFor_Any(rows, ref) ==
    IF rows = {} THEN 0 ELSE CHOOSE p \in rows : \A q \in rows : p <= q

(* the first row, in scan order, whose stored reference decrypts to ref; 0 if none *)
ScanFor(rows, ref) ==
    LET hits == {p \in rows : DecryptOk(payments[p].chapa_tx_ref)
                              /\ decrypt_data(payments[p].chapa_tx_ref) = ref}
    IN IF hits = {} THEN 0 ELSE CHOOSE p \in hits : \A q \in hits : p <= q

Terminal(p) == payments[p].status # PENDING

HasTerminal(ref) == ScanFor({p \in Ids : Terminal(p)}, ref) # 0

Finish(task, code, msg) ==
    [task EXCEPT !.pc = "done", !.resp = [NoResponse EXCEPT !.code = code, !.msg = msg]]

\* a transaction reference as the gateway and the callbacks carry it
TxRefString(ref) == "tx-" \o ToString(ref)

\* a response that shows the stored reference in the clear
MaskedRef_Plain(p) == TxRefString(decrypt_data(payments[p].chapa_tx_ref))

\* chapa_tx_ref="********"
MaskedRef(p) == MASK

PaymentView(task, code, p, shownRef) ==
    [task EXCEPT !.pc = "done",
                 !.resp = [code |-> code, msg |-> "", id |-> p,
                           property_id |-> payments[p].property_id,
                           amount |-> payments[p].amount,
                           status |-> payments[p].status,
                           chapa_tx_ref |-> shownRef]]

\* handlers are anonymous: a request takes the first free slot
Free(t) == tasks[t].pc = "idle" /\ \A u \in Tasks : u < t => tasks[u].pc # "idle"

\* task t goes on with its next step
Continue(t, task) ==
    /\ tasks' = [tasks EXCEPT ![t] = task]
    /\ last' = NoReturn
    /\ UNCHANGED racedDone

\* task t returns
Returns(t, done) ==
    /\ tasks' = [tasks EXCEPT ![t] = IdleTask]
    /\ last' = Returned(done)
    /\ racedDone' = IF done.kind = "webhook" /\ done.raced
                    THEN racedDone \cup {done.found} ELSE racedDone

\* what t does next: it returns when its record says so
Step(t, task) == IF task.pc = "done" THEN Returns(t, task) ELSE Continue(t, task)

(* ------------------------------------------------ transaction references *)
\* f"tx-{uuid.uuid4()}": a reference equal to no other reference in the
\* system.  References are only ever compared for equality, and a reference
\* is seen by another handler only once its payment is stored: the stored
\* references are numbered in the order in which they are stored.
FreshRef == Len(payments) + 1

\* the references of the stored payments, known to the gateway
IssuedRefs == {decrypt_data(payments[p].chapa_tx_ref) : p \in Ids}

(* ------------------------------------------------ POST /payments/initiate *)
\* The authenticated entity is an Owner (its own details) or a Service; for a
\* Service the payer is fetched with get_user_details_for_notification, which
\* returns None on any failure.  phone is whether a phone number is present.
Principals == {[role |-> r, found |-> f, phone |-> ph] :
                  r \in {"Owner", "Service"}, f \in BOOLEAN, ph \in BOOLEAN}

\* request ids are opaque (uuids): they are numbered in the order in which
\* the system comes to know them
NextRequestId(request_id) ==
    \A r \in RequestIds : r < request_id =>
        \/ ~UniqueRequestId(r)
        \/ \E t \in Tasks : tasks[t].kind = "initiate" /\ tasks[t].request_id = r

\* the payer's details, the phone check, the idempotency check and, with no
\* row stored, the generation of the reference
InitiateLookup(t, request_id, property_id, amount, user_id, who) ==
    /\ Free(t)
    /\ NextRequestId(request_id)
    /\ who.role = "Owner" => who.found
    /\ ~who.found => ~who.phone
    /\ LET task == [IdleTask EXCEPT !.kind = "initiate",
                                    !.request_id = request_id,
                                    !.property_id = property_id,
                                    !.amount = amount,
                                    !.user_id = user_id,
                                    !.existedAtStart = ~UniqueRequestId(request_id),
                                    !.effects = IF who.role = "Service"
                                                THEN {"user_lookup"} ELSE {}]
           read == [task EXCEPT !.effects = @ \cup {"db_read"}]
           existing_payment == ByRequestId(request_id)
       IN Step(t, IF who.role = "Service" /\ ~who.found
                  THEN Finish(task, 404, "User details not found for the provided user_id")
                  ELSE IF ~who.phone
                  THEN Finish(task, 400, "User phone number not provided")
                  ELSE IF existing_payment # {}
                  THEN PaymentView(read, 202, CHOOSE p \in existing_payment : TRUE,
                                   MaskedRef(CHOOSE p \in existing_payment : TRUE))
                  ELSE [read EXCEPT !.pc = "gateway"])
    /\ UNCHANGED <<metrics_counters, notice, auth, cipher, retry, payments, sweep, now, sweepDue, webhook_secret,
                   initAccepted, listingCalls, notifications>>

\* chapa_service.initialize_payment: the answer's status, or the exception
\* that async_retry re-raises after its last attempt
InitOutcomes == {"success", "failed", "raise"}

\* a gateway that is taken to accept whenever it answers
Accepted_AnyAnswer(outcome) == outcome # "raise"

\* if chapa_response.status != "success": raise HTTPException(400)
Accepted(outcome) == outcome = "success"

\* the gateway call and, when the gateway accepts, db.add(new_payment);
\* await db.commit(); await db.refresh(new_payment)
InitiateCreate(t, outcome) ==
    /\ tasks[t].kind = "initiate" /\ tasks[t].pc = "gateway"
    /\ LET task == [tasks[t] EXCEPT !.effects = @ \cup {"gw_init"},
                                    !.init_status = outcome]
           write == [task EXCEPT !.effects = @ \cup {"db_write"}]
       IN /\ initAccepted' = [initAccepted EXCEPT ![task.request_id] =
                                IF Accepted(outcome) THEN @ + 1 ELSE @]
          /\ IF Accepted(outcome) /\ UniqueRequestId(task.request_id)
             THEN /\ payments' = Append(payments,
                        NewPayment(task.request_id, task.property_id, task.user_id,
                                   task.amount, encrypt_data(FreshRef)))
                  /\ metrics_counters' = Count("pending_payments", 1)
                  /\ Returns(t, [write EXCEPT
                                  !.resp = [code |-> 202, msg |-> "",
                                            id |-> Len(payments) + 1,
                                            property_id |-> task.property_id,
                                            amount |-> task.amount,
                                            status |-> PENDING,
                                            chapa_tx_ref |-> CHECKOUT_URL]])
             ELSE /\ UNCHANGED <<payments, metrics_counters>>
                  /\ Returns(t,
                       IF outcome = "raise"
                       THEN Finish(task, 500, "Internal server error")
                       ELSE IF ~Accepted(outcome)
                       THEN Finish(task, 400, "Payment initialization failed")
                       ELSE Finish(write, 500, "Internal server error"))
    /\ UNCHANGED <<notice, auth, cipher, retry, sweep, now, sweepDue, webhook_secret, listingCalls, notifications>>

(* ------------------------------------- GET /payments/{payment_id}/status *)
\* get_current_user gives the requester: any user with any role
Roles == {"Owner", "Tenant", "Admin"}

Requesters == {[user_id |-> u, role |-> r] : u \in UserIds \cup {0}, r \in Roles}

\* ids asked for: those of the stored payments and one that is never stored
StatusIds == PaymentIds \cup {0}

\* a check that lets only the payment's user through
Authorized_OwnerOnly(payment, current_user) == payment.user_id = current_user.user_id

\* not (payment.user_id != current_user.user_id and current_user.role != "Admin")
Authorized(payment, current_user) ==
    payment.user_id = current_user.user_id \/ current_user.role = "Admin"

\* The handler has one await, db.get(Payment, payment_id), and returns.
get_payment_status(payment_id, current_user) ==
    /\ LET task == [IdleTask EXCEPT !.kind = "status",
                                    !.payment_id = payment_id,
                                    !.user_id = current_user.user_id,
                                    !.role = current_user.role,
                                    !.found = IF payment_id \in Ids THEN payment_id ELSE 0,
                                    !.effects = {"db_read"}]
       IN last' = Returned(
            IF payment_id \notin Ids
            THEN Finish(task, 404, "Payment not found")
            ELSE IF ~Authorized(payments[payment_id], current_user)
            THEN Finish(task, 403, "Not authorized to view this payment status")
            ELSE PaymentView(task, 200, payment_id, MaskedRef(payment_id)))
    /\ UNCHANGED <<metrics_counters, notice, auth, cipher, retry, payments, tasks, sweep, now, sweepDue, webhook_secret,
                   initAccepted, listingCalls, notifications, racedDone>>

(* -------------------------------------------------- POST /webhook/chapa *)
\* A request body: whether it parses as JSON, whether the parsed value and
\* its "data" are JSON objects (a body such as [] or {"data": null} is JSON
\* but has no .get), and data.tx_ref and data.status of the event (NoRef and
\* "" when the field is absent or empty).
Bodies(refs) == {[json |-> FALSE, object |-> FALSE, tx_ref |-> NoRef, status |-> ""],
                 [json |-> TRUE, object |-> FALSE, tx_ref |-> NoRef, status |-> ""]}
                \cup {[json |-> TRUE, object |-> TRUE, tx_ref |-> r, status |-> s] :
                         r \in refs \cup {NoRef, ForeignRef},
                         s \in {"", "success", "failed"}}

\* the body is JSON with a data.tx_ref and a data.status
WellFormed(body) ==
    body.json /\ body.object /\ body.tx_ref # NoRef /\ body.status # ""

\* the PENDING payments whose reference is ref
PendingMatches(ref) ==
    {p \in Ids : payments[p].status = PENDING /\ payments[p].chapa_tx_ref[2] = ref}

\* a handler that goes on only when the event claims success
HasStatus_Success(transaction_status) == transaction_status = "success"

\* not (not transaction_status): the claimed status is only required to be there
HasStatus(transaction_status) == transaction_status # ""

NO_ACTION == "Payment not found or not in PENDING state, no action taken"
ALREADY_PROCESSED == "Payment already processed, no action taken"
PROCESSED == "Webhook processed successfully"

\* the job is between its select and its end, and selected payment p
SweepHolds(p) == sweep.pc = "loop" /\ p \in sweep.selected

\* the signature check, the parse of the body, then
\* select(Payment).where(Payment.status == PENDING), decrypt and compare
WebhookScan(t, body, x_chapa_signature) ==
    /\ Free(t)
    /\ LET task == [IdleTask EXCEPT !.kind = "webhook",
                                    !.sigValid = (x_chapa_signature =
                                                    HmacHex(webhook_secret, body)),
                                    !.wellFormed = WellFormed(body),
                                    !.matchedPending = PendingMatches(body.tx_ref) # {}]
           read == [task EXCEPT !.effects = @ \cup {"db_read"},
                                !.tx_ref = body.tx_ref,
                                !.terminalAtStart = HasTerminal(body.tx_ref)]
           found_payment == ScanFor({p \in Ids : payments[p].status = PENDING}, body.tx_ref)
       IN Step(t,
            IF x_chapa_signature = NoSignature
            THEN Finish(task, 401, "X-Chapa-Signature header missing")
            ELSE IF ~verify_webhook_signature(webhook_secret, body, x_chapa_signature)
            THEN Finish(task, 401, "Invalid webhook signature")
            ELSE IF ~body.json
            THEN Finish(task, 400, "Invalid JSON payload")
            ELSE IF ~body.object
            THEN Finish(task, 500, "Internal Server Error")
            ELSE IF body.tx_ref = NoRef \/ ~HasStatus(body.status)
            THEN Finish(task, 400, "Invalid webhook payload")
            ELSE IF found_payment = 0
            THEN Finish(read, 200, NO_ACTION)
            ELSE IF payments[found_payment].status # PENDING
            THEN Finish([read EXCEPT !.found = found_payment], 200, ALREADY_PROCESSED)
            ELSE [read EXCEPT !.pc = "verify", !.found = found_payment,
                              !.raced = SweepHolds(found_payment)])
    /\ UNCHANGED <<metrics_counters, notice, auth, cipher, retry, payments, sweep, now, sweepDue, webhook_secret,
                   initAccepted, listingCalls, notifications>>

\* chapa_service.verify_payment: <<status, data.status>> of the answer, or the
\* exception that async_retry re-raises after its last attempt
VerifyOutcomes == {<<"success", "success">>, <<"success", "failed">>,
                   <<"failed", "">>, <<"raise", "">>}

\* one "success" of the two is enough
VerifyToStatus_Either(verification) ==
    IF verification[1] = "raise" THEN FAILED
    ELSE IF verification[1] # "success" /\ verification[2] # "success" THEN FAILED
    ELSE SUCCESS

VerifyToStatus(verification) ==
    IF verification[1] = "raise" THEN FAILED
    ELSE IF verification[1] # "success" \/ verification[2] # "success" THEN FAILED
    ELSE SUCCESS

\* the gateway's verification, then found_payment.status = new_status;
\* db.add; await db.commit(); db.refresh
WebhookCommit(t, verification) ==
    /\ tasks[t].kind = "webhook" /\ tasks[t].pc = "verify"
    /\ LET new_status == VerifyToStatus(verification)
           task == [tasks[t] EXCEPT !.effects = @ \cup {"gw_verify", "db_write"},
                                    !.verification = verification]
       IN /\ payments' = UpdateStatus(task.found, new_status)
          /\ metrics_counters' = Count("pending_payments", -1)
          /\ Step(t, IF new_status = SUCCESS
                     THEN [task EXCEPT !.pc = "confirm"]
                     ELSE Finish(task, 200, PROCESSED))
    /\ UNCHANGED <<notice, auth, cipher, retry, sweep, now, sweepDue, webhook_secret,
                   initAccepted, listingCalls, notifications>>

\* a handler that lets the failure of the listing call reach the caller
ListingAnswer_Propagated(task, delivered) ==
    IF delivered THEN Finish(task, 200, PROCESSED)
    ELSE Finish(task, 503, "Property Listing service unavailable")

\* try: await confirm_payment_with_listing_service(..) except Exception:
\* logger.error(..); then return {"message": "Webhook processed successfully"}
ListingAnswer(task, delivered) == Finish(task, 200, PROCESSED)

\* confirm_payment_with_listing_service; a failure after the last attempt is
\* logged by the handler ("listing_failed" records it)
WebhookConfirm(t, delivered) ==
    /\ tasks[t].kind = "webhook" /\ tasks[t].pc = "confirm"
    /\ listingCalls' = [listingCalls EXCEPT ![tasks[t].found] = @ + 1]
    /\ Step(t, ListingAnswer([tasks[t] EXCEPT !.effects = @ \cup
                                  (IF delivered THEN {"listing"}
                                   ELSE {"listing", "listing_failed"})],
                             delivered))
    /\ UNCHANGED <<metrics_counters, notice, auth, cipher, retry, payments, sweep, now, sweepDue, webhook_secret,
                   initAccepted, notifications>>

(* -------------------------------------------------- GET /payments/return *)
\* RedirectResponse(url=FRONTEND_REDIRECT_URL?status=..&payment_id=..[&reason|issue=..])
REDIRECT == 307

Redirect(task, redirect_status, p, note) ==
    [task EXCEPT !.pc = "done",
                 !.resp = [NoResponse EXCEPT !.code = REDIRECT, !.status = redirect_status,
                                             !.id = p, !.msg = note]]

\* a redirect that always reports success
RedirectStatus_Success(st) == "success"

RedirectStatus(st) == IF st = SUCCESS THEN "success" ELSE "failed"

\* select(Payment): every row is a candidate, whatever its status
ReturnScan(t, trx_ref, status) ==
    /\ Free(t)
    /\ LET task == [IdleTask EXCEPT !.kind = "return",
                                    !.matchedPending = PendingMatches(trx_ref) # {}]
           read == [task EXCEPT !.effects = @ \cup {"db_read"},
                                !.tx_ref = trx_ref,
                                !.terminalAtStart = HasTerminal(trx_ref)]
           found_payment == ScanFor(Ids, trx_ref)
       IN Step(t,
            IF trx_ref = NoRef
            THEN Redirect(task, "failed", 0, "invalid_return")
            ELSE IF found_payment = 0
            THEN Redirect(read, "failed", 0, "not_found")
            ELSE IF payments[found_payment].status # PENDING
            THEN Redirect([read EXCEPT !.found = found_payment],
                          RedirectStatus(payments[found_payment].status), found_payment, "")
            ELSE [read EXCEPT !.pc = "verify", !.found = found_payment,
                              !.raced = SweepHolds(found_payment)])
    /\ UNCHANGED <<metrics_counters, notice, auth, cipher, retry, payments, sweep, now, sweepDue, webhook_secret,
                   initAccepted, listingCalls, notifications>>

ReturnVerifyToStatus(verification) ==
    IF verification[1] = "raise" THEN FAILED
    ELSE IF verification[1] = "success" /\ verification[2] = "success" THEN SUCCESS
    ELSE FAILED

ReturnCommit(t, verification) ==
    /\ tasks[t].kind = "return" /\ tasks[t].pc = "verify"
    /\ LET new_status == ReturnVerifyToStatus(verification)
           task == [tasks[t] EXCEPT !.effects = @ \cup {"gw_verify", "db_write"},
                                    !.verification = verification]
       IN /\ payments' = UpdateStatus(task.found, new_status)
          /\ Step(t, IF new_status = SUCCESS
                     THEN [task EXCEPT !.pc = "confirm"]
                     ELSE Redirect(task, "failed", task.found, ""))
    /\ UNCHANGED <<metrics_counters, notice, auth, cipher, retry, sweep, now, sweepDue, webhook_secret,
                   initAccepted, listingCalls, notifications>>

ReturnConfirm(t, delivered) ==
    /\ tasks[t].kind = "return" /\ tasks[t].pc = "confirm"
    /\ listingCalls' = [listingCalls EXCEPT ![tasks[t].found] = @ + 1]
    /\ Step(t, Redirect([tasks[t] EXCEPT !.effects = @ \cup {"listing"}], "success",
                         tasks[t].found,
                         IF delivered THEN "" ELSE "confirmation_failed"))
    /\ UNCHANGED <<metrics_counters, notice, auth, cipher, retry, payments, sweep, now, sweepDue, webhook_secret,
                   initAccepted, notifications>>

(* ------------------------------------- timeout_pending_payments (main.py) *)
\* Payment.status == PENDING and Payment.created_at < now - PAYMENT_TIMEOUT_DAYS
TimedOut(p) ==
    /\ payments[p].status = PENDING
    /\ payments[p].created_at < now - PAYMENT_TIMEOUT_DAYS

\* The statement is Payment.__table__.select(), a select of the table's
\* columns and not of the Payment entity: its rows are column tuples, and
\* .scalars().all() is the list of their first column, the ids.
SweepStart ==
    /\ sweepDue /\ sweep.pc # "loop"
    /\ sweep' = [pc |-> "loop", selected |-> {p \in Ids : TimedOut(p)}]
    /\ sweepDue' = FALSE
    /\ tasks' = [t \in Tasks |->
                   IF tasks[t].pc = "verify" /\ TimedOut(tasks[t].found)
                   THEN [tasks[t] EXCEPT !.raced = TRUE] ELSE tasks[t]]
    /\ last' = NoReturn
    /\ UNCHANGED <<metrics_counters, notice, auth, cipher, retry, payments, now, webhook_secret,
                   initAccepted, listingCalls, notifications, racedDone>>

\* for payment in pending_payments: payment.status = FAILED; ... ; db.commit().
\* payment is an id (a uuid.UUID), whose attributes cannot be set: the first
\* iteration raises, the session is closed without a commit and nothing of
\* the loop body (the update, the notification) takes place.  With nothing
\* selected the loop is empty and the commit writes nothing.
SweepLoop ==
    /\ sweep.pc = "loop"
    /\ sweep' = [sweep EXCEPT !.pc = IF sweep.selected = {} THEN "completed" ELSE "raised"]
    /\ last' = NoReturn
    /\ UNCHANGED <<metrics_counters, notice, auth, cipher, retry, payments, tasks, now, sweepDue, webhook_secret,
                   initAccepted, listingCalls, notifications, racedDone>>

\* The clock is read at the end of a timeout window and a day after it;
\* by then IntervalTrigger(hours=24) has made the job due.
Elapsed == {PAYMENT_TIMEOUT_DAYS, PAYMENT_TIMEOUT_DAYS + 1}

Tick(days) ==
    /\ now + days <= MaxNow
    /\ now' = now + days
    /\ sweepDue' = TRUE
    /\ last' = NoReturn
    /\ UNCHANGED <<metrics_counters, notice, auth, cipher, retry, payments, tasks, sweep, webhook_secret,
                   initAccepted, listingCalls, notifications, racedDone>>

\* IntervalTrigger(hours=24) goes on firing for as long as the application
\* runs: the job becomes due again, at times the clock no longer counts
SchedulerFires ==
    /\ \A days \in Elapsed : now + days > MaxNow
    /\ ~sweepDue /\ sweep.pc # "loop"
    /\ sweepDue' = TRUE
    /\ last' = NoReturn
    /\ UNCHANGED <<metrics_counters, notice, auth, cipher, retry, payments, tasks, sweep, now, webhook_secret,
                   initAccepted, listingCalls, notifications, racedDone>>

(* ------------------------------------------------- async_retry (retry.py) *)
\* What one invocation of the wrapped function does: it returns a value, it
\* raises one of the exceptions the decorator was given, or it raises
\* another exception.  func is the function's behaviour, invocation by
\* invocation; invocation i returns <<"value", i>> or raises <<kind, i>>.
RetryOutcomes == {"value", "transient", "fatal"}

\* a loop that stops one attempt short
Attempts_Short(n) == 1..(n - 1)

\* for attempt in range(1, max_attempts + 1)
Attempts(n) == 1..n

\* wrapper(*args, **kwargs) is called: current_delay = delay, attempt = 1
RetryCall(n, func) ==
    /\ retry.pc = "idle"
    /\ retry' = [NoCall EXCEPT !.pc = "loop", !.max_attempts = n, !.func = func,
                               !.attempt = 1]
    /\ UNCHANGED <<metrics_counters, notice, auth, cipher, payments, tasks, last, sweep, now, sweepDue, webhook_secret,
                   initAccepted, listingCalls, notifications, racedDone>>

\* one turn of the loop: try: return await func(..) except exceptions: sleep
\* and go on if attempt < max_attempts, else raise; another exception leaves
\* the wrapper at once; a loop that runs out returns None
RetryAttempt ==
    /\ retry.pc = "loop"
    /\ LET attempt == retry.attempt
           called == [retry EXCEPT !.invocations = @ + 1]
       IN retry' =
            IF attempt \notin Attempts(retry.max_attempts)
            THEN [retry EXCEPT !.pc = "returned", !.result = <<"none", 0>>]
            ELSE IF retry.func[attempt] = "value"
            THEN [called EXCEPT !.pc = "returned", !.result = <<"value", attempt>>]
            ELSE IF retry.func[attempt] = "fatal"
            THEN [called EXCEPT !.pc = "raised", !.result = <<"fatal", attempt>>]
            ELSE IF attempt < retry.max_attempts
            THEN [called EXCEPT !.attempt = attempt + 1]
            ELSE [called EXCEPT !.pc = "raised", !.result = <<"transient", attempt>>]
    /\ UNCHANGED <<metrics_counters, notice, auth, cipher, payments, tasks, last, sweep, now, sweepDue, webhook_secret,
                   initAccepted, listingCalls, notifications, racedDone>>

\* The three wrapped dependency calls, all decorated with max_attempts = 3.
DEPENDENCY_MAX_ATTEMPTS == 3

DependencyOps == {"verify_with_user_management", "initialize_payment", "verify_payment"}

\* the wrapped call to the Property Listing service, max_attempts = 3 too
LISTING_CONFIRM == "confirm_payment_with_listing_service"

\* what the dependency does on one request: an HTTP answer, no answer at
\* all, or a 200 whose body cannot be read into the response model
DependencyAnswers == {"200", "401", "403", "500", "unreachable", "malformed"}

\* the exception one invocation of the wrapped function leaves with:
\* verify_with_user_management turns RequestError and every HTTPStatusError
\* (401 and 403 included) into an HTTPException; the gateway calls re-raise
\* what httpx raised.  In confirm_payment_with_listing_service the parameter
\* status (a PaymentStatus) hides fastapi's status module: the handler of
\* RequestError evaluates status.HTTP_503_SERVICE_UNAVAILABLE on it and
\* leaves with AttributeError; the handler of HTTPStatusError does not use
\* the name and raises the HTTPException
Raises(op, answer) ==
    IF answer = "200" THEN "none"
    ELSE IF answer = "malformed" THEN "ValueError"
    ELSE IF op = "verify_with_user_management" THEN "HTTPException"
    ELSE IF op = LISTING_CONFIRM
    THEN IF answer = "unreachable" THEN "AttributeError" ELSE "HTTPException"
    ELSE IF answer = "unreachable" THEN "RequestError"
    ELSE "HTTPStatusError"

\* the exceptions= argument of each decorator
Exceptions(op) ==
    IF op \in {"verify_with_user_management", LISTING_CONFIRM}
    THEN {"RequestError", "HTTPException"}
    ELSE {"RequestError", "HTTPStatusError"}

\* except exceptions as e
Classify(op, answer) ==
    IF Raises(op, answer) = "none" THEN "value"
    ELSE IF Raises(op, answer) \in Exceptions(op) THEN "transient"
    ELSE "fatal"

\* a wrapped dependency call; answers[i] is the dependency's answer to the
\* i-th request
DependencyCall(op, answers) ==
    /\ retry.pc = "idle"
    /\ retry' = [NoCall EXCEPT !.pc = "loop",
                               !.max_attempts = DEPENDENCY_MAX_ATTEMPTS,
                               !.func = [i \in 1..DEPENDENCY_MAX_ATTEMPTS |->
                                            Classify(op, answers[i])],
                               !.attempt = 1, !.op = op, !.answers = answers]
    /\ UNCHANGED <<metrics_counters, notice, auth, cipher, payments, tasks, last, sweep, now, sweepDue, webhook_secret,
                   initAccepted, listingCalls, notifications, racedDone>>

\* calls of a wrapped function, for every max_attempts >= 1 up to the bound
\* and every behaviour of the function
RetryNext ==
    \/ \E n \in 1..MaxAttempts : \E func \in [1..n -> RetryOutcomes] : RetryCall(n, func)
    \/ \E op \in DependencyOps :
          \E answers \in [1..DEPENDENCY_MAX_ATTEMPTS -> DependencyAnswers] :
             DependencyCall(op, answers)
    \/ \E answers \in [1..DEPENDENCY_MAX_ATTEMPTS -> DependencyAnswers] :
          DependencyCall(LISTING_CONFIRM, answers)
    \/ RetryAttempt

RetrySpec == Init /\ [][RetryNext]_vars

(* --------------------------------------- encrypt / decrypt (security.py) *)
\* Strings given to encrypt_data: a plain string <<n>>, or a string that is
\* itself a token of a plain string.
Keys == {ENCRYPTION_KEY, "another_key"}

PlainTexts == {<<n>> : n \in 0..MaxData}

Texts == PlainTexts \cup {FernetToken(key, data) : key \in Keys, data \in PlainTexts}

\* encrypt_data(data)
Encrypt(data) ==
    /\ cipher.pc = "idle"
    /\ cipher' = [NoCipher EXCEPT !.pc = "encrypted", !.key = ENCRYPTION_KEY,
                                  !.data = data, !.token = encrypt_data(data)]
    /\ UNCHANGED <<metrics_counters, notice, auth, retry, payments, tasks, last, sweep, now, sweepDue, webhook_secret,
                   initAccepted, listingCalls, notifications, racedDone>>

\* a ciphertext of data produced by a Fernet of another key
ForeignEncrypt(key, data) ==
    /\ cipher.pc = "idle"
    /\ key # ENCRYPTION_KEY
    /\ cipher' = [NoCipher EXCEPT !.pc = "encrypted", !.key = key,
                                  !.data = data, !.token = FernetToken(key, data)]
    /\ UNCHANGED <<metrics_counters, notice, auth, retry, payments, tasks, last, sweep, now, sweepDue, webhook_secret,
                   initAccepted, listingCalls, notifications, racedDone>>

\* decrypt_data(token): the plaintext, or InvalidToken re-raised
Decrypt ==
    /\ cipher.pc = "encrypted"
    /\ cipher' = IF DecryptOk(cipher.token)
                 THEN [cipher EXCEPT !.pc = "decrypted",
                                     !.result = decrypt_data(cipher.token)]
                 ELSE [cipher EXCEPT !.pc = "raised"]
    /\ UNCHANGED <<metrics_counters, notice, auth, retry, payments, tasks, last, sweep, now, sweepDue, webhook_secret,
                   initAccepted, listingCalls, notifications, racedDone>>

CipherNext ==
    \/ \E data \in Texts : Encrypt(data)
    \/ \E key \in Keys : \E data \in Texts : ForeignEncrypt(key, data)
    \/ Decrypt

CipherSpec == Init /\ [][CipherNext]_vars

(* ---------------------------------------- get_current_user (auth.py) *)
\* a cache read whose failure fails the request
CacheReadFailed_Raises(req) == [req EXCEPT !.pc = "done", !.read = "fail", !.code = 500]

\* except Exception: log, then go on to the verification
CacheReadFailed(req) == [req EXCEPT !.pc = "decode", !.read = "fail"]

\* 1. redis_client.get(f"user_cache:{token}"): the cached user is returned;
\* with no entry, or when the read raises, the request goes on
AuthCacheRead(token, ok) ==
    /\ auth.req.pc \in {"idle", "done"}
    /\ LET req == [NoAuthRequest EXCEPT !.token = token, !.effects = {"cache_read"}]
       IN auth' = [auth EXCEPT !.req =
            IF ~ok THEN CacheReadFailed(req)
            ELSE IF auth.cache[token] # NoUser
            THEN [req EXCEPT !.pc = "done", !.read = "hit", !.code = 200,
                             !.user = auth.cache[token]]
            ELSE [req EXCEPT !.pc = "decode", !.read = "miss"]]
    /\ UNCHANGED <<metrics_counters, notice, cipher, retry, payments, tasks, last, sweep, now, sweepDue, webhook_secret,
                   initAccepted, listingCalls, notifications, racedDone>>

\* jwt.decode: a token that does not decode, or has no sub claim, is a 401
JwtOutcomes == {"valid", "invalid", "no_sub"}

AuthDecode(jwt) ==
    /\ auth.req.pc = "decode"
    /\ auth' = [auth EXCEPT !.req =
            LET req == [auth.req EXCEPT !.jwt = jwt, !.effects = @ \cup {"jwt_decode"}]
            IN IF jwt = "valid" THEN [req EXCEPT !.pc = "verify"]
               ELSE [req EXCEPT !.pc = "done", !.code = 401]]
    /\ UNCHANGED <<metrics_counters, notice, cipher, retry, payments, tasks, last, sweep, now, sweepDue, webhook_secret,
                   initAccepted, listingCalls, notifications, racedDone>>

\* the status of the HTTPException that verify_with_user_management leaves
\* with, after the wrapper's last attempt; an unreadable body is an
\* unhandled exception
VerifyCode(answer) ==
    IF answer = "401" THEN 401
    ELSE IF answer = "403" THEN 403
    ELSE IF answer = "unreachable" THEN 503
    ELSE 500

\* 2. user_data = await verify_with_user_management(token)
AuthVerify(answer) ==
    /\ auth.req.pc = "verify"
    /\ auth' = [auth EXCEPT !.req =
            LET req == [auth.req EXCEPT !.verify = answer, !.effects = @ \cup {"um_verify"}]
            IN IF answer = "200" THEN [req EXCEPT !.pc = "write", !.user = req.token]
               ELSE [req EXCEPT !.pc = "done", !.code = VerifyCode(answer)]]
    /\ UNCHANGED <<metrics_counters, notice, cipher, retry, payments, tasks, last, sweep, now, sweepDue, webhook_secret,
                   initAccepted, listingCalls, notifications, racedDone>>

\* 3. redis_client.set(..., ex=ttl) inside try/except Exception, then return
AuthCacheWrite(ok) ==
    /\ auth.req.pc = "write"
    /\ auth' = [cache |-> IF ok THEN [auth.cache EXCEPT ![auth.req.token] = auth.req.user]
                          ELSE auth.cache,
                req |-> [auth.req EXCEPT !.pc = "done", !.code = 200,
                                         !.write = IF ok THEN "ok" ELSE "fail",
                                         !.effects = @ \cup {"cache_write"}]]
    /\ UNCHANGED <<metrics_counters, notice, cipher, retry, payments, tasks, last, sweep, now, sweepDue, webhook_secret,
                   initAccepted, listingCalls, notifications, racedDone>>

\* the entry's time to live runs out
CacheExpire(token) ==
    /\ auth.cache[token] # NoUser
    /\ auth' = [auth EXCEPT !.cache[token] = NoUser]
    /\ UNCHANGED <<metrics_counters, notice, cipher, retry, payments, tasks, last, sweep, now, sweepDue, webhook_secret,
                   initAccepted, listingCalls, notifications, racedDone>>

AuthNext ==
    \/ \E token \in Tokens, ok \in BOOLEAN : AuthCacheRead(token, ok)
    \/ \E jwt \in JwtOutcomes : AuthDecode(jwt)
    \/ \E answer \in DependencyAnswers : AuthVerify(answer)
    \/ \E ok \in BOOLEAN : AuthCacheWrite(ok)
    \/ \E token \in Tokens : CacheExpire(token)

AuthSpec == Init /\ [][AuthNext]_vars

(* ------------------------- NotificationService.send_notification *)
Languages == {"en", "am", "xx"}

\* the templates every language has, and a name none of them has
TemplateNames == {"payment_timed_out", "payment_success", "unknown"}

\* the Notification service when the request reaches it
ServiceStates == {"up", "unreachable", "error_status"}

\* the types of the fields of NotificationPayload.model_dump(): the fields
\* keep their Python types, and user_id is a uuid.UUID
PayloadTypes == [user_id |-> "UUID", email |-> "str", phone_number |-> "str",
                 preferred_language |-> "str", message |-> "str", subject |-> "str"]

\* json=..: the client encodes the dictionary with json.dumps, which raises
\* TypeError for a value that is not a JSON type
JsonSerializable(types) == \A f \in DOMAIN types : types[f] \in {"str", "int", "float", "bool", "None"}

\* send_notification(user_id, email, phone_number, preferred_language,
\* template_name, template_vars) is called
NotifyCall(lang, template_name, vars_complete, service) ==
    /\ notice.pc = "idle"
    /\ notice' = [NoNotice EXCEPT !.pc = "render", !.lang = lang,
                                  !.template_name = template_name,
                                  !.vars_complete = vars_complete, !.service = service]
    /\ UNCHANGED <<metrics_counters, auth, cipher, retry, payments, tasks, last, sweep, now, sweepDue,
                   webhook_secret, initAccepted, listingCalls, notifications, racedDone>>

\* _get_template falls back to English for an unknown language, and raises
\* KeyError for an unknown template name; format raises KeyError for a
\* missing variable
NotifyRender ==
    /\ notice.pc = "render"
    /\ notice' = IF notice.template_name = "unknown" \/ ~notice.vars_complete
                 THEN [notice EXCEPT !.pc = "done", !.outcome = "raised"]
                 ELSE [notice EXCEPT !.pc = "send"]
    /\ UNCHANGED <<metrics_counters, auth, cipher, retry, payments, tasks, last, sweep, now, sweepDue,
                   webhook_secret, initAccepted, listingCalls, notifications, racedDone>>

\* _send_external_notification and the fallback: the body is encoded before
\* the request is sent; RequestError and HTTPStatusError give False and the
\* log-only path, any other exception leaves send_notification
NotifySend ==
    /\ notice.pc = "send"
    /\ notice' = [notice EXCEPT !.pc = "done", !.outcome =
                    IF ~JsonSerializable(PayloadTypes) THEN "raised"
                    ELSE IF notice.service = "up" THEN "delivered"
                    ELSE "logged"]
    /\ UNCHANGED <<metrics_counters, auth, cipher, retry, payments, tasks, last, sweep, now, sweepDue,
                   webhook_secret, initAccepted, listingCalls, notifications, racedDone>>

\* the caller has its answer
NotifyEnd ==
    /\ notice.pc = "done"
    /\ notice' = NoNotice
    /\ UNCHANGED <<metrics_counters, auth, cipher, retry, payments, tasks, last, sweep, now, sweepDue,
                   webhook_secret, initAccepted, listingCalls, notifications, racedDone>>

NotifyNext ==
    \/ \E lang \in Languages, template_name \in TemplateNames,
          vars_complete \in BOOLEAN, service \in ServiceStates :
          NotifyCall(lang, template_name, vars_complete, service)
    \/ NotifyRender
    \/ NotifySend
    \/ NotifyEnd

NotifySpec == Init /\ [][NotifyNext]_vars

(* ---------------------------------------------------------- specification *)
Initiate ==
    \/ \E t \in Tasks, r \in RequestIds, pl \in Payloads, u \in UserIds,
          who \in Principals :
          InitiateLookup(t, r, pl.property_id, pl.amount, u, who)
    \/ \E t \in Tasks, o \in InitOutcomes : InitiateCreate(t, o)

Webhook ==
    \/ \E t \in Tasks, b \in Bodies(IssuedRefs), sig \in Digests \cup {NoSignature} :
          WebhookScan(t, b, sig)
    \/ \E t \in Tasks, v \in VerifyOutcomes : WebhookCommit(t, v)
    \/ \E t \in Tasks, d \in BOOLEAN : WebhookConfirm(t, d)

Return ==
    \/ \E t \in Tasks, r \in IssuedRefs \cup {NoRef, ForeignRef},
          s \in {"success", "failed"} : ReturnScan(t, r, s)
    \/ \E t \in Tasks, v \in VerifyOutcomes : ReturnCommit(t, v)
    \/ \E t \in Tasks, d \in BOOLEAN : ReturnConfirm(t, d)

Next ==
    \/ Initiate
    \/ Webhook
    \/ Return
    \/ SweepStart
    \/ SweepLoop
    \/ \E days \in Elapsed : Tick(days)
    \/ SchedulerFires

Spec == Init /\ [][Next]_vars

\* The gateway's two callbacks on the payments that initiation stores.
(* ------------------------------------------------------------ the log *)
\* The records a handler has written that carry a reference, by the request
\* it served: initialize_payment logs tx_ref once the gateway has answered
\* (the stored payment's reference is then that of the response's id), the
\* webhook logs chapa_tx_ref once the body is validated, the return handler
\* logs trx_ref on entry.  No processor of the logger masks a field.
LogOf(task) ==
    IF task.kind = "initiate" /\ task.resp.code = 202
    THEN {[event |-> "Chapa payment initialization successful",
           tx_ref |-> task.resp.id]}
    ELSE IF task.kind = "webhook" /\ task.tx_ref # NoRef
    THEN {[event |-> "Processing Chapa webhook", tx_ref |-> task.tx_ref]}
    ELSE IF task.kind = "return" /\ task.tx_ref # NoRef
    THEN {[event |-> "Received Chapa return redirect", tx_ref |-> task.tx_ref]}
    ELSE {}

\* the records of the requests in flight and of the last one that returned
LogRecords == UNION {LogOf(tasks[t]) : t \in Tasks} \cup LogOf(last)

CallbackNext ==
    \/ Initiate
    \/ Webhook
    \/ Return

CallbackSpec == Init /\ [][CallbackNext]_vars

\* the three endpoints, with the counters kept
MetricsInit ==
    /\ payments = <<>>
    /\ tasks = [t \in Tasks |-> IdleTask]
    /\ last = NoReturn
    /\ sweep = [pc |-> "idle", selected |-> {}]
    /\ now = 0
    /\ sweepDue = FALSE
    /\ webhook_secret \in WebhookSecrets
    /\ initAccepted = [r \in RequestIds |-> 0]
    /\ listingCalls = [p \in PaymentIds |-> 0]
    /\ notifications = [p \in PaymentIds |-> 0]
    /\ racedDone = {}
    /\ retry = NoCall
    /\ cipher = NoCipher
    /\ auth = [cache |-> [token \in Tokens |-> NoUser], req |-> NoAuthRequest]
    /\ notice = NoNotice
    /\ metrics_counters = NoMetrics

MetricsNext ==
    \/ Initiate
    \/ Webhook
    \/ Return

MetricsSpec == MetricsInit /\ [][MetricsNext]_vars

\* The service started on a store that holds payments already: MaxStored
\* rows of any status, each with its own reference, some of them encrypted
\* under a key the service no longer has.  Row p has reference p.
StoredPayment(p, st, key) ==
    [request_id |-> p, property_id |-> 1, user_id |-> 1, amount |-> 100,
     status |-> st, chapa_tx_ref |-> FernetToken(key, p), created_at |-> 0]

Stores ==
    {[p \in 1..MaxStored |-> StoredPayment(p, sk[p][1], sk[p][2])] :
        sk \in [1..MaxStored -> PaymentStatus \X Keys]}

StoreInit ==
    /\ payments \in Stores
    /\ tasks = [t \in Tasks |-> IdleTask]
    /\ last = NoReturn
    /\ sweep = [pc |-> "idle", selected |-> {}]
    /\ now = 0
    /\ sweepDue = FALSE
    /\ webhook_secret \in WebhookSecrets
    /\ initAccepted = [r \in 1..MaxStored |-> 1]
    /\ listingCalls = [p \in 1..MaxStored |-> 0]
    /\ notifications = [p \in 1..MaxStored |-> 0]
    /\ racedDone = {}
    /\ retry = NoCall
    /\ cipher = NoCipher
    /\ auth = [cache |-> [token \in Tokens |-> NoUser], req |-> NoAuthRequest]
    /\ notice = NoNotice
    /\ metrics_counters = Unfollowed

StoreNext ==
    \/ Webhook
    \/ Return

StoreSpec == StoreInit /\ [][StoreNext]_vars

\* The endpoints a client reads payments through, with the webhook that
\* settles them.
StatusNext ==
    \/ Initiate
    \/ Webhook
    \/ \E payment_id \in StatusIds, current_user \in Requesters :
          get_payment_status(payment_id, current_user)

StatusSpec == Init /\ [][StatusNext]_vars

\* The application when no webhook and no return redirect ever arrives, with
\* the scheduling the application has: time passes, and the scheduler starts
\* the job whenever it is due and lets it run to its end.
NoCallbackNext ==
    \/ Initiate
    \/ SweepStart
    \/ SweepLoop
    \/ \E days \in Elapsed : Tick(days)
    \/ SchedulerFires

NoCallbackSpec ==
    /\ Init /\ [][NoCallbackNext]_vars
    /\ WF_vars(\E days \in Elapsed : Tick(days))
    /\ WF_vars(SchedulerFires)
    /\ WF_vars(SweepStart)
    /\ WF_vars(SweepLoop)

(* ================================================================ claims *)
\* the webhook handlers in flight
WebhookRecords == {tasks[t] : t \in {u \in Tasks : tasks[u].kind = "webhook"}}

\* a response message that contains "already processed"
MentionsAlreadyProcessed(msg) == msg = ALREADY_PROCESSED

(* C1: a payment whose status is SUCCESS or FAILED keeps that status in     *)
(* every later step, so a payment changes status at most once               *)
(* (PENDING to a terminal status), whatever handlers and jobs interleave.   *)
C1_TerminalNeverChanges ==
    [][\A p \in Ids : Terminal(p) => payments'[p].status = payments[p].status]_vars

(* C2: for every request_id the gateway creates at most one transaction:    *)
(* at most one initialize call for it is made and accepted, even when two   *)
(* initiate requests with that request_id are in flight together.           *)
C2_OneInitializePerRequest ==
    \A r \in RequestIds : initAccepted[r] <= 1

(* C3: no two stored payments share a request_id, and when an initiation    *)
(* has just returned 202 exactly one payment is stored for its request_id.  *)
C3_OnePaymentPerRequest ==
    /\ \A r \in RequestIds : Cardinality(ByRequestId(r)) <= 1
    /\ (last.kind = "initiate" /\ last.resp.code = 202)
          => Cardinality(ByRequestId(last.request_id)) = 1

\* two initiations of one request_id both reached the gateway, the second
\* INSERT was refused and one payment is stored
C3_SecondInsertRefused ==
    /\ last.kind = "initiate" /\ last.resp.code = 500 /\ "db_write" \in last.effects
    /\ initAccepted[last.request_id] = 2
    /\ Cardinality(ByRequestId(last.request_id)) = 1

(* C4: the listing service is asked to approve a payment at most once: only *)
(* the one handler that moved the payment from PENDING to SUCCESS calls it. *)
C4_OneApprovalPerPayment ==
    \A p \in Ids : listingCalls[p] <= 1

(* C5: when a webhook handler and the timeout job were at work on the same  *)
(* PENDING payment, then once the handler has returned and the job has      *)
(* ended the payment is SUCCESS or FAILED and at most one notification has  *)
(* been sent for it.                                                        *)
C5_RaceEndsTerminalOneNotification ==
    \A p \in racedDone :
        sweep.pc # "loop" => Terminal(p) /\ notifications[p] <= 1

\* a webhook handler wrote a payment the job had selected, and the job ended
C5_WebhookRacedSweep ==
    /\ racedDone # {}
    /\ sweep.pc = "raised"
    /\ \A t \in Tasks : tasks[t].pc = "idle"

(* C6: a webhook whose reference is that of a payment already SUCCESS or    *)
(* FAILED is answered 200 with a message containing "already processed",    *)
(* and the handler does nothing but read the store: no write, no verify     *)
(* call, no listing call, no notification.                                  *)
C6_TerminalWebhookAlreadyProcessed ==
    (last.kind = "webhook" /\ last.terminalAtStart)
        => /\ last.resp.code = 200
           /\ MentionsAlreadyProcessed(last.resp.msg)
           /\ last.effects = {"db_read"}

(* C7: an initiation whose request_id is already stored is answered 202     *)
(* with the stored payment's id, property_id, amount and status and the     *)
(* masked reference, whatever its own payload, and makes no gateway call,   *)
(* no notification and no write.                                            *)
C7_ReplayReturnsStored ==
    (last.kind = "initiate" /\ last.existedAtStart)
        => /\ last.resp.code = 202
           /\ last.resp.id \in ByRequestId(last.request_id)
           /\ last.resp.property_id = payments[last.resp.id].property_id
           /\ last.resp.amount = payments[last.resp.id].amount
           /\ last.resp.status = payments[last.resp.id].status
           /\ last.resp.chapa_tx_ref = MASK
           /\ last.effects \cap {"gw_init", "db_write", "notify"} = {}

(* C8: the status the webhook handler writes is SUCCESS exactly when the    *)
(* gateway's verification has status "success" and data.status "success",   *)
(* and FAILED in every other case (a verification that raised included).    *)
C8_WebhookWritesVerifiedStatus ==
    [][\A t \in Tasks :
          (tasks[t].kind = "webhook" /\ tasks[t].pc = "verify" /\ tasks'[t].pc # "verify")
             => LET v == IF tasks'[t].pc = "confirm" THEN tasks'[t].verification
                                                    ELSE last'.verification
                IN payments'[tasks[t].found].status =
                      IF v = <<"success", "success">> THEN SUCCESS ELSE FAILED]_vars

\* the gateway answered "success" with a failed transaction, and the webhook
\* handler wrote FAILED
C8_UnverifiedWrittenFailed ==
    /\ last.kind = "webhook" /\ "db_write" \in last.effects
    /\ last.verification = <<"success", "failed">>
    /\ payments[last.found].status = FAILED

(* C9: a webhook whose signature header is missing or is not the HMAC of    *)
(* the body is answered 401 before the store is read and before any gateway *)
(* or downstream call: no handler goes on with such a request.              *)
C9_BadSignatureRejectedFirst ==
    /\ \A w \in WebhookRecords : w.sigValid
    /\ (last.kind = "webhook" /\ ~last.sigValid)
          => last.resp.code = 401 /\ last.effects = {}

(* C10: whatever secret is configured, verify_webhook_signature accepts a   *)
(* signature only when it is the hex HMAC of the body under that secret,    *)
(* and no webhook whose signature is not that HMAC gets as far as the       *)
(* store.                                                                   *)
C10_SignatureIsTheHmac ==
    /\ \A body \in Bodies({1}), sig \in Digests :
          verify_webhook_signature(webhook_secret, body, sig)
             => sig = HmacHex(webhook_secret, body)
    /\ \A w \in WebhookRecords : w.sigValid \/ w.effects = {}
    /\ last.kind = "webhook" => (last.sigValid \/ last.effects = {})

\* a response message that contains "no action taken"
MentionsNoActionTaken(msg) == msg \in {NO_ACTION, ALREADY_PROCESSED}

(* C11: a webhook with a valid signature and a well-formed body whose       *)
(* tx_ref is that of no PENDING payment is answered 200 with a message      *)
(* containing "no action taken" in the step in which it arrives: the        *)
(* handler only reads the store (no write, no verify call, no listing       *)
(* call), every payment is as it was, and no such request stays in flight.  *)
C11_UnmatchedWebhookNoAction ==
    [][/\ \A t \in Tasks : tasks'[t].kind = "webhook" => tasks'[t].matchedPending
       /\ (last'.kind = "webhook" /\ last'.sigValid /\ last'.wellFormed
              /\ ~last'.matchedPending)
             => /\ last'.resp.code = 200
                /\ MentionsNoActionTaken(last'.resp.msg)
                /\ last'.effects = {"db_read"}
                /\ payments' = payments
                /\ listingCalls' = listingCalls]_vars

\* a webhook with a reference of no payment was answered while a payment
\* was PENDING
C11_ForeignRefAnswered ==
    /\ last.kind = "webhook" /\ last.sigValid /\ last.wellFormed
    /\ ~last.matchedPending /\ last.resp.code = 200
    /\ \E p \in Ids : payments[p].status = PENDING

(* C12: an initiation whose request_id was not stored and which the gateway *)
(* accepted made one initialize call, stored one payment, PENDING, sent one *)
(* "payment initiated" notification for it, and is answered 202 with        *)
(* status PENDING and the checkout URL.                                     *)
C12_FirstInitiationEffects ==
    (last.kind = "initiate" /\ ~last.existedAtStart /\ last.resp.code = 202)
        => /\ {"gw_init", "db_write", "notify"} \subseteq last.effects
           /\ ByRequestId(last.request_id) = {last.resp.id}
           /\ last.resp.status = PENDING
           /\ last.resp.chapa_tx_ref = CHECKOUT_URL
           /\ notifications[last.resp.id] = 1

(* C13: when the gateway answers initialize with a status other than        *)
(* "success", the initiation is answered 400 and the store is left as it    *)
(* was: no payment is created.                                              *)
C13_RejectedInitiationCreatesNothing ==
    [][(last'.kind = "initiate" /\ last'.init_status = "failed")
          => /\ last'.resp.code = 400
             /\ payments' = payments]_vars

\* the gateway refused an initiation, and no payment is stored for it
C13_GatewayRefused ==
    /\ last.kind = "initiate" /\ last.init_status = "failed"
    /\ last.resp.code = 400
    /\ UniqueRequestId(last.request_id)

(* C14: a run of the timeout job that no handler interferes with sets to    *)
(* FAILED exactly the payments it selected (PENDING, created before now     *)
(* minus the timeout window) and leaves the status of every other payment   *)
(* as it was.                                                               *)
C14_SweepFailsTimedOut ==
    [][(/\ sweep.pc = "loop" /\ sweep'.pc # "loop"
        /\ \A p \in sweep.selected : payments[p].status = PENDING)
          => \A p \in Ids :
                payments'[p].status = IF p \in sweep.selected THEN FAILED
                                      ELSE payments[p].status]_vars

C16_PendingEventuallyTerminal ==
    \A p \in PaymentIds :
        (p \in Ids /\ TimedOut(p)) ~> (p \in Ids /\ Terminal(p))

C19_WebhookTransitionNotifies ==
    (last.kind = "webhook" /\ "db_write" \in last.effects)
        => /\ "notify" \in last.effects
           /\ notifications[last.found] >= 1

(* C20: a call of a function wrapped by async_retry with max_attempts = n,  *)
(* n >= 1, invokes the function at most n times; when it returns, it        *)
(* returns the value of the first invocation that succeeded and has invoked *)
(* the function no more than that; when all n invocations raised a          *)
(* retryable exception it ends by raising the exception of the n-th.        *)
C20_RetryAtMostMaxAttempts ==
    LET n == retry.max_attempts
        firstValue == {i \in 1..n : /\ retry.func[i] = "value"
                                    /\ \A j \in 1..(i - 1) : retry.func[j] = "transient"}
    IN /\ retry.invocations <= n
       /\ retry.pc = "returned"
             => /\ retry.invocations \in firstValue
                /\ retry.result = <<"value", retry.invocations>>
       /\ (retry.pc \in {"returned", "raised"}
             /\ \A i \in 1..n : retry.func[i] = "transient")
             => /\ retry.pc = "raised"
                /\ retry.invocations = n
                /\ retry.result = <<"transient", n>>

\* a call with max_attempts = 3 whose invocations all failed has raised
C20_AllAttemptsFailed ==
    /\ retry.pc = "raised" /\ retry.max_attempts = 3
    /\ retry.invocations = 3 /\ retry.result = <<"transient", 3>>

(* C21: a wrapped dependency call whose first answer is a 401 or a 403      *)
(* invokes the operation exactly once and ends by raising that failure.     *)
C21_NonTransientNotRetried ==
    (/\ retry.op \in DependencyOps
     /\ retry.answers[1] \in {"401", "403"})
        => /\ retry.invocations <= 1
           /\ retry.pc \in {"returned", "raised"} => retry.result[2] = 1

C23_ReferenceNeverInResponse ==
    last.kind \in {"initiate", "status"}
        => /\ \A p \in Ids :
                last.resp.chapa_tx_ref # TxRefString(decrypt_data(payments[p].chapa_tx_ref))
           /\ (last.kind = "status" /\ last.resp.code = 200)
                 => last.resp.chapa_tx_ref = MASK
           /\ (last.kind = "initiate" /\ last.resp.code = 202)
                 => last.resp.chapa_tx_ref =
                       IF "db_write" \in last.effects THEN CHECKOUT_URL ELSE MASK
           /\ last.resp.code \notin {200, 202} => last.resp.chapa_tx_ref = ""

\* the status of a stored payment was returned to its user
C23_StatusShown ==
    /\ last.kind = "status" /\ last.resp.code = 200
    /\ last.resp.id \in Ids /\ last.resp.chapa_tx_ref = MASK

(* C24: the status endpoint answers 404 when no payment has the id, 403     *)
(* when the payment exists and the requester is neither its user nor an     *)
(* Admin, and otherwise 200 with the payment's view; it leaves the store as *)
(* it is.                                                                   *)
C24_StatusAnswers ==
    [][last'.kind = "status"
         => /\ payments' = payments
            /\ IF last'.payment_id \notin Ids
               THEN last'.resp.code = 404
               ELSE IF /\ payments[last'.payment_id].user_id # last'.user_id
                       /\ last'.role # "Admin"
               THEN last'.resp.code = 403
               ELSE /\ last'.resp.code = 200
                    /\ last'.resp.id = last'.payment_id
                    /\ last'.resp.status = payments[last'.payment_id].status
                    /\ last'.resp.amount = payments[last'.payment_id].amount
                    /\ last'.resp.property_id = payments[last'.payment_id].property_id]_vars

\* an Admin who is not the payment's user was shown a settled payment
C24_AdminReadsSettled ==
    /\ last.kind = "status" /\ last.resp.code = 200
    /\ last.role = "Admin" /\ last.user_id # payments[last.payment_id].user_id
    /\ last.resp.status = SUCCESS

(* C25: a request whose credential-cache read failed is served as one that  *)
(* missed the cache: the token is decoded and verified with the User        *)
(* Management service and the answer is theirs, 200 with the verified user  *)
(* when both accept, whether or not the later cache write fails.            *)
C25_CacheFailureFallsThrough ==
    LET req == auth.req
    IN (req.pc = "done" /\ req.read \in {"miss", "fail"})
          => /\ "jwt_decode" \in req.effects
             /\ req.code = IF req.jwt # "valid" THEN 401
                           ELSE IF req.verify = "200" THEN 200
                           ELSE VerifyCode(req.verify)
             /\ req.jwt = "valid" => "um_verify" \in req.effects
             /\ req.code = 200 => req.user = req.token /\ req.write \in {"ok", "fail"}

\* a request was authenticated although the cache failed on read and on write
C25_ServedWithoutCache ==
    /\ auth.req.pc = "done" /\ auth.req.read = "fail" /\ auth.req.write = "fail"
    /\ auth.req.code = 200 /\ auth.req.user = auth.req.token

(* C26: a webhook that passed the signature check and whose body is not     *)
(* JSON, or carries no data.tx_ref or no data.status, is answered 400 and   *)
(* has read or written nothing and called neither the gateway nor the       *)
(* listing service.                                                         *)
C26_MalformedWebhookRejected ==
    (/\ last.kind = "webhook"
     /\ last.resp.code # 401
     /\ ~last.wellFormed)
        => last.resp.code = 400 /\ last.effects = {}

(* C27: the status a webhook body or a return redirect claims has no        *)
(* influence on what happens: whenever a handler takes in a well-formed     *)
(* webhook, or a return redirect, the same step from the same state is the  *)
(* step of the request that differs only in the claimed status (and, for    *)
(* the webhook, in the signature that covers it), so the payment status     *)
(* written and the calls made afterwards, which depend on the handler's     *)
(* state and the gateway's verification only, are the same.                 *)
C27_ClaimedStatusIgnored ==
    [][/\ \A t \in Tasks, b \in Bodies(IssuedRefs), sig \in Digests :
            (WellFormed(b) /\ WebhookScan(t, b, sig))
               => \A other \in {"success", "failed"} :
                     \E sig2 \in Digests :
                        WebhookScan(t, [b EXCEPT !.status = other], sig2)
       /\ \A t \in Tasks, r \in IssuedRefs \cup {NoRef, ForeignRef},
             s \in {"success", "failed"} :
            ReturnScan(t, r, s)
               => \A other \in {"success", "failed"} : ReturnScan(t, r, other)]_vars

\* a webhook handler, whatever status its event claimed, wrote FAILED for a
\* payment the gateway's verification did not confirm
C27_VerifiedStatusWritten ==
    /\ last.kind = "webhook" /\ "db_write" \in last.effects
    /\ last.verification = <<"success", "failed">>
    /\ payments[last.found].status = FAILED

(* C28: once the listing service has been called for a payment, the         *)
(* payment's stored status is SUCCESS in every later state, whatever        *)
(* handlers and jobs interleave.                                            *)
C28_ApprovedStaysSuccess ==
    \A p \in Ids : listingCalls[p] > 0 => payments[p].status = SUCCESS

(* C29: when two valid initiations with the same request_id race, each of   *)
(* them is answered 202 with the id of the one stored payment: an           *)
(* initiation that came in before the request_id was stored, and that the   *)
(* gateway accepted, never gets an error response.                          *)
C29_RacingInitiationsBothAccepted ==
    (/\ last.kind = "initiate"
     /\ ~last.existedAtStart
     /\ last.init_status = "success")
        => /\ last.resp.code = 202
           /\ ByRequestId(last.request_id) = {last.resp.id}

(* C30: the lookup by request_id comes before every other step of an        *)
(* initiation: an initiation whose request_id is already stored makes no    *)
(* payer lookup and is answered with the stored payment, whether or not     *)
(* the payer could be found and has a phone number.                         *)
C30_ReplayLookupFirst ==
    (last.kind = "initiate" /\ last.existedAtStart)
        => /\ "user_lookup" \notin last.effects
           /\ last.resp.code = 202
           /\ last.resp.id \in ByRequestId(last.request_id)

(* C31: a webhook or return redirect for reference R changes at most one    *)
(* payment, the one its scan found, whose stored reference decrypts to R,   *)
(* and of that payment only the status: every other payment and every       *)
(* other field is as before.                                                *)
C31_OnlyTheReferencedPaymentChanges ==
    [][LET changed == {p \in Ids : payments'[p] # payments[p]}
       IN /\ DOMAIN payments' = Ids
          /\ Cardinality(changed) <= 1
          /\ \A p \in changed :
                /\ \E t \in Tasks :
                      /\ tasks[t].kind \in {"webhook", "return"}
                      /\ tasks[t].found = p
                      /\ DecryptOk(payments[p].chapa_tx_ref)
                      /\ decrypt_data(payments[p].chapa_tx_ref) = tasks[t].tx_ref
                /\ payments'[p] = [payments[p] EXCEPT !.status = payments'[p].status]]_vars

\* the webhook for the second payment's reference settled it and left the
\* first payment PENDING
C31_SecondSettledFirstUntouched ==
    /\ last.kind = "webhook" /\ "db_write" \in last.effects
    /\ last.tx_ref = 2 /\ last.found = 2
    /\ payments[2].status = SUCCESS
    /\ payments[1].status = PENDING /\ DecryptOk(payments[1].chapa_tx_ref)

(* C32: in the scan of the webhook and return handlers a row whose stored   *)
(* reference does not decrypt is passed over as a non-match: a row after it *)
(* whose reference matches is still found, a request is answered "not       *)
(* found" only when no candidate row decrypts to its reference, and the     *)
(* request does not fail.                                                   *)
C32_UndecryptableRowSkipped ==
    \A rec \in {Returned(tasks[t]) : t \in Tasks} \cup {last} :
        (rec.kind \in {"webhook", "return"} /\ rec.tx_ref # NoRef)
           => LET hits == {p \in Ids : /\ DecryptOk(payments[p].chapa_tx_ref)
                                       /\ decrypt_data(payments[p].chapa_tx_ref) = rec.tx_ref}
                  candidates == IF rec.kind = "webhook"
                                THEN {p \in hits : payments[p].status = PENDING}
                                ELSE hits
              IN /\ rec.found # 0 => rec.found \in hits
                 /\ (rec = last /\ rec.found = 0) => candidates = {}
                 /\ rec.resp.code \in {0, 200, REDIRECT}

\* the first row does not decrypt and the handler found the second
C32_FoundBehindUndecryptable ==
    /\ ~DecryptOk(payments[1].chapa_tx_ref)
    /\ \E t \in Tasks : /\ tasks[t].kind = "webhook" /\ tasks[t].pc = "verify"
                        /\ tasks[t].tx_ref = 2 /\ tasks[t].found = 2

(* C34: when the gateway's initialize call has failed through all the       *)
(* attempts of the retry wrapper, the initiation is answered 503 and no     *)
(* payment is stored for it.                                                *)
C34_GatewayDownAnswered503 ==
    (last.kind = "initiate" /\ last.init_status = "raise")
        => /\ last.resp.code = 503
           /\ "db_write" \notin last.effects

(* C35: a notification that could be rendered and whose delivery fails, the *)
(* Notification service being unreachable or answering an error status,     *)
(* ends in the log-only fallback and send_notification returns normally.    *)
C35_DeliveryFailureFallsBack ==
    (/\ notice.pc = "done"
     /\ notice.template_name # "unknown" /\ notice.vars_complete
     /\ notice.service \in {"unreachable", "error_status"})
        => notice.outcome = "logged"

(* C36: a call of confirm_payment_with_listing_service whose every request  *)
(* fails with a network error or an HTTP error status requests the service  *)
(* 3 times and then ends by raising the failure to the handler.             *)
C36_ListingCallRetriedThreeTimes ==
    (/\ retry.op = LISTING_CONFIRM
     /\ retry.pc \in {"returned", "raised"}
     /\ \A i \in 1..DEPENDENCY_MAX_ATTEMPTS :
           retry.answers[i] \in {"unreachable", "401", "403", "500"})
        => /\ retry.pc = "raised"
           /\ retry.invocations = DEPENDENCY_MAX_ATTEMPTS

(* C37: every stored payment holds its reference as a token of             *)
(* encrypt_data, and no log record written by initiation, the webhook, the  *)
(* return handler or the gateway client carries the plaintext reference of  *)
(* a stored payment.                                                        *)
C37_ReferenceNeverInPlaintext ==
    /\ \A p \in Ids : payments[p].chapa_tx_ref
                         = encrypt_data(decrypt_data(payments[p].chapa_tx_ref))
    /\ \A rec \in LogRecords : \A p \in Ids :
          rec.tx_ref # decrypt_data(payments[p].chapa_tx_ref)

(* C38: the pending_payments counter is never negative and equals the       *)
(* number of stored payments, all created since the process started, whose  *)
(* status is PENDING.                                                       *)
C38_PendingCounterMatchesStore ==
    /\ metrics_counters.pending_payments >= 0
    /\ metrics_counters.pending_payments
          = Cardinality({p \in Ids : payments[p].status = PENDING})

====
